---- MODULE Spec2Model ----
(***************************************************************************)
(* Model of type-trance (src/script.js): a typing-animation video job.     *)
(*                                                                         *)
(* Strings are sequences of one-character strings.  The numbers of the     *)
(* program that can be fractions (pixel sizes, margins, times, frame       *)
(* counts) are JavaScript Numbers, that is IEEE-754 doubles: they are      *)
(* records [neg, m, e] of value (-1)^neg * m * 2^e and every operation on  *)
(* them rounds its exact result to 53 bits, ties to even.  Decimal         *)
(* literals with one fractional digit are written in tenths, times in      *)
(* thirtieths of a second (one frame period at 30 fps).  The raster of a   *)
(* frame is abstracted to the display lines drawn on it.                   *)
(***************************************************************************)
EXTENDS Integers, Sequences, FiniteSets, TLC

VARIABLES
    \* ---- wrapText / optimizeLayout called as functions ----
    text,          \* the text argument
    maxWidth,      \* bounding-box width  (double, pixels)
    maxHeight,     \* bounding-box height (double, pixels)
    maxWidth10,    \* the maxWidth literal of a function-level call, tenths
    maxHeight10,   \* the maxHeight literal of a function-level call, tenths
    minFontSize,   \* smallest font size tried
    maxFontSize,   \* largest font size tried
    ctxFont,       \* ctx.font: the font size the measurer is configured at
    wrapped,       \* lines returned by the last direct wrapText call
    layout,        \* the LayoutSpec returned by optimizeLayout
    lpc,           \* position of the function-level caller
    \* ---- generateTypingVideo ----
    pc,            \* position of the job
    job,           \* number of the job now running (0: none yet)
    options,       \* the options record of the running job
    width,         \* canvas width  (pixels)
    height,        \* canvas height (pixels)
    totalFrames,   \* double
    bufferFrames,  \* double
    typingFrames,  \* double
    i,             \* frame loop index
    frames,        \* display lines of the frames rendered by this job
    dirExists,     \* os.tmpdir()/temp_frames exists
    files,         \* frame index -> job that wrote frame_<index>.png
    encInput,      \* image sequence the encoder was started on
    encEvent       \* event the encoder finished with

lvars == <<text, maxWidth, maxHeight, maxWidth10, maxHeight10, minFontSize,
           maxFontSize, ctxFont, wrapped, layout, lpc>>
jvars == <<pc, job, options, width, height, totalFrames, bufferFrames,
           typingFrames, i, frames, dirExists, files, encInput, encEvent>>
vars == <<lvars, jvars>>

----------------------------------------------------------------------------
(* Bounds of the model *)

MaxWords == 3          \* most words of a text handed to wrapText/optimizeLayout
MaxFont == 7           \* largest font size of the function-level calls
MaxJobs == 2           \* jobs run one after another on the same machine
MaxVideoLen30 == 11    \* longest videoLength, in thirtieths of a second
MaxBufferTime30 == 2   \* longest bufferTime, in thirtieths of a second

Words == { <<>>, <<"a">>, <<"a", "b", "b">> }
LayoutWidths == {0, 25, 100}     \* maxWidth literals, tenths of a pixel
LayoutHeights == {0, 60, 252}    \* maxHeight literals, tenths of a pixel

----------------------------------------------------------------------------
(* Strings *)

Digits == <<"0", "1", "2", "3", "4", "5", "6", "7", "8", "9">>

IsDigit(c) == \E d \in 1..10 : Digits[d] = c

DigitValue(c) == (CHOOSE d \in 1..10 : Digits[d] = c) - 1

\* String.prototype.split(sep) for a one-character separator: the pieces
\* between separators, empty pieces kept; never an empty list.
RECURSIVE SplitLoop(_, _, _, _, _)
SplitLoop(s, sep, k, cur, acc) ==
    IF k > Len(s) THEN Append(acc, cur)
    ELSE IF s[k] = sep THEN SplitLoop(s, sep, k + 1, <<>>, Append(acc, cur))
    ELSE SplitLoop(s, sep, k + 1, Append(cur, s[k]), acc)

Split(s, sep) == SplitLoop(s, sep, 1, <<>>, <<>>)

\* Array.prototype.join(" ")
RECURSIVE JoinFrom(_, _)
JoinFrom(ls, k) ==
    IF k > Len(ls) THEN <<>>
    ELSE IF k = Len(ls) THEN ls[k]
    ELSE ls[k] \o <<" ">> \o JoinFrom(ls, k + 1)

Join(ls) == JoinFrom(ls, 1)

\* Number(s) for a string of decimal digits; Number("") is 0.
RECURSIVE NumberLoop(_, _, _)
NumberLoop(s, k, acc) ==
    IF k > Len(s) THEN acc
    ELSE NumberLoop(s, k + 1, acc * 10 + DigitValue(s[k]))

Number(s) == NumberLoop(s, 1, 0)

\* the non-empty texts of 1 .. n words of Words separated by single spaces
RECURSIVE TextsUpTo(_)
TextsUpTo(n) ==
    IF n = 0 THEN {}
    ELSE TextsUpTo(n - 1)
         \cup ({ Join(ws) : ws \in [1..n -> Words] } \ { <<>> })

----------------------------------------------------------------------------
(* Numbers.  Every number of the program is an IEEE-754 double.  A natural *)
(* number of any size is a sequence of limbs in base 2^15, least           *)
(* significant first, without leading zero limbs (zero is the empty        *)
(* sequence).  A finite double is a record [neg, m, e] of value            *)
(* (-1)^neg * m * 2^e with m an odd natural of at most 53 bits, or m zero; *)
(* the exponent range of the doubles is not reached by the program and is  *)
(* not modelled.  Every operation computes the exact result and rounds it  *)
(* once to the nearest double, ties to even, as the hardware does.         *)

LimbBits == 15
LimbBase == 32768
MantissaBits == 53

RECURSIVE BNorm(_)
BNorm(a) ==
    IF a = <<>> THEN <<>>
    ELSE IF a[Len(a)] = 0 THEN BNorm(SubSeq(a, 1, Len(a) - 1))
    ELSE a

RECURSIVE BFromInt(_)
BFromInt(n) ==
    IF n = 0 THEN <<>>
    ELSE <<n % LimbBase>> \o BFromInt(n \div LimbBase)

RECURSIVE BToInt(_)
BToInt(a) ==
    IF a = <<>> THEN 0
    ELSE a[1] + LimbBase * BToInt(Tail(a))

RECURSIVE BCmpFrom(_, _, _)
BCmpFrom(a, b, k) ==
    IF k = 0 THEN 0
    ELSE IF a[k] < b[k] THEN -1
    ELSE IF a[k] > b[k] THEN 1
    ELSE BCmpFrom(a, b, k - 1)

\* -1, 0 or 1 as a < b, a = b, a > b
BCmp(a, b) ==
    IF Len(a) < Len(b) THEN -1
    ELSE IF Len(a) > Len(b) THEN 1
    ELSE BCmpFrom(a, b, Len(a))

RECURSIVE BAddFrom(_, _, _, _)
BAddFrom(a, b, k, carry) ==
    IF k > Len(a) /\ k > Len(b)
    THEN IF carry = 0 THEN <<>> ELSE <<carry>>
    ELSE LET x == IF k <= Len(a) THEN a[k] ELSE 0
             y == IF k <= Len(b) THEN b[k] ELSE 0
             s == x + y + carry
         IN <<s % LimbBase>> \o BAddFrom(a, b, k + 1, s \div LimbBase)

BAdd(a, b) == BAddFrom(a, b, 1, 0)

RECURSIVE BSubFrom(_, _, _, _)
BSubFrom(a, b, k, borrow) ==
    IF k > Len(a) THEN <<>>
    ELSE LET y == IF k <= Len(b) THEN b[k] ELSE 0
             d == a[k] - y - borrow
         IN IF d < 0
            THEN <<d + LimbBase>> \o BSubFrom(a, b, k + 1, 1)
            ELSE <<d>> \o BSubFrom(a, b, k + 1, 0)

\* a - b for a >= b
BSub(a, b) == BNorm(BSubFrom(a, b, 1, 0))

RECURSIVE BMulSmallFrom(_, _, _, _)
BMulSmallFrom(a, c, k, carry) ==
    IF k > Len(a)
    THEN IF carry = 0 THEN <<>> ELSE <<carry>>
    ELSE LET p == a[k] * c + carry
         IN <<p % LimbBase>> \o BMulSmallFrom(a, c, k + 1, p \div LimbBase)

\* a * c for 0 <= c < 2^15
BMulSmall(a, c) == IF c = 0 THEN <<>> ELSE BMulSmallFrom(a, c, 1, 0)

ZeroLimbs(n) == [k \in 1..n |-> 0]

RECURSIVE BMulFrom(_, _, _)
BMulFrom(a, b, j) ==
    IF j > Len(b) THEN <<>>
    ELSE BAdd(IF b[j] = 0 THEN <<>>
              ELSE ZeroLimbs(j - 1) \o BMulSmall(a, b[j]),
              BMulFrom(a, b, j + 1))

BMul(a, b) == IF a = <<>> \/ b = <<>> THEN <<>> ELSE BMulFrom(a, b, 1)

\* a * 2^k
BShl(a, k) ==
    IF a = <<>> THEN <<>>
    ELSE ZeroLimbs(k \div LimbBits) \o BMulSmall(a, 2 ^ (k % LimbBits))

\* quotient and remainder of a by d, 0 < d <= 2^15, from limb k downward
RECURSIVE BDivSmallFrom(_, _, _, _)
BDivSmallFrom(a, d, k, r) ==
    IF k = 0 THEN [q |-> <<>>, r |-> r]
    ELSE LET cur == r * LimbBase + a[k]
             rest == BDivSmallFrom(a, d, k - 1, cur % d)
         IN [q |-> Append(rest.q, cur \div d), r |-> rest.r]

BDivSmall(a, d) ==
    LET res == BDivSmallFrom(a, d, Len(a), 0)
    IN [q |-> BNorm(res.q), r |-> res.r]

\* floor(a / 2^k)
BShr(a, k) ==
    IF k \div LimbBits >= Len(a) THEN <<>>
    ELSE BDivSmall(SubSeq(a, k \div LimbBits + 1, Len(a)),
                   2 ^ (k % LimbBits)).q

\* bit idx of a, bit 0 the least significant
BBit(a, idx) ==
    IF idx \div LimbBits >= Len(a) THEN 0
    ELSE (a[idx \div LimbBits + 1] \div (2 ^ (idx % LimbBits))) % 2

\* a is a multiple of 2^k
BLowZero(a, k) ==
    /\ \A j \in 1..(k \div LimbBits) : j > Len(a) \/ a[j] = 0
    /\ \/ k \div LimbBits >= Len(a)
       \/ a[k \div LimbBits + 1] % (2 ^ (k % LimbBits)) = 0

RECURSIVE SmallBitLen(_)
SmallBitLen(n) == IF n = 0 THEN 0 ELSE 1 + SmallBitLen(n \div 2)

BitLen(a) ==
    IF a = <<>> THEN 0
    ELSE LimbBits * (Len(a) - 1) + SmallBitLen(a[Len(a)])

RECURSIVE SmallTrailingZeros(_)
SmallTrailingZeros(n) ==
    IF n % 2 = 1 THEN 0 ELSE 1 + SmallTrailingZeros(n \div 2)

\* number of trailing zero bits of a # 0
RECURSIVE BTrailingZeros(_, _)
BTrailingZeros(a, k) ==
    IF a[k] = 0 THEN LimbBits + BTrailingZeros(a, k + 1)
    ELSE SmallTrailingZeros(a[k])

\* the largest t, acc <= t < acc + 2^(bit+1), with d * t <= cur
RECURSIVE BDigit(_, _, _, _)
BDigit(cur, d, bit, acc) ==
    IF bit < 0 THEN acc
    ELSE IF BCmp(BMulSmall(d, acc + 2 ^ bit), cur) <= 0
    THEN BDigit(cur, d, bit - 1, acc + 2 ^ bit)
    ELSE BDigit(cur, d, bit - 1, acc)

\* long division of n by d > 0 from limb k of n downward, r the remainder
\* of the limbs above k
RECURSIVE BDivLong(_, _, _, _)
BDivLong(n, d, k, r) ==
    IF k = 0 THEN [q |-> <<>>, r |-> r]
    ELSE LET cur == BNorm(<<n[k]>> \o r)
             t == BDigit(cur, d, LimbBits - 1, 0)
             rest == BDivLong(n, d, k - 1, BSub(cur, BMulSmall(d, t)))
         IN [q |-> Append(rest.q, t), r |-> rest.r]

\* quotient and remainder of n by d > 0
BDivMod(n, d) ==
    IF Len(d) = 1
    THEN [q |-> BDivSmall(n, d[1]).q, r |-> BFromInt(BDivSmall(n, d[1]).r)]
    ELSE LET res == BDivLong(n, d, Len(n), <<>>)
         IN [q |-> BNorm(res.q), r |-> res.r]

FZero == [neg |-> FALSE, m |-> <<>>, e |-> 0]

\* m * 2^e with the trailing zero bits of m moved into the exponent
FStrip(neg, m, e) ==
    LET tz == BTrailingZeros(m, 1)
    IN [neg |-> neg, m |-> BShr(m, tz), e |-> e + tz]

\* the double nearest to (-1)^neg * (m + f) * 2^e, where 0 <= f < 1 and
\* sticky says f > 0; ties go to the even mantissa
FRound(neg, m, e, sticky) ==
    IF m = <<>> THEN FZero
    ELSE IF BitLen(m) <= MantissaBits THEN FStrip(neg, m, e)
    ELSE LET sh == BitLen(m) - MantissaBits
             kept == BShr(m, sh)
             half == BBit(m, sh - 1) = 1
             low == sticky \/ ~BLowZero(m, sh - 1)
             up == half /\ (low \/ BBit(kept, 0) = 1)
         IN FStrip(neg, IF up THEN BAdd(kept, <<1>>) ELSE kept, e + sh)

\* the double of an integer of the model
FromInt(n) ==
    IF n < 0 THEN FRound(TRUE, BFromInt(0 - n), 0, FALSE)
    ELSE FRound(FALSE, BFromInt(n), 0, FALSE)

FNeg(a) == IF a.m = <<>> THEN a ELSE [a EXCEPT !.neg = ~a.neg]

FMul(a, b) == FRound(a.neg # b.neg, BMul(a.m, b.m), a.e + b.e, FALSE)

FDiv(a, b) ==
    IF a.m = <<>> THEN FZero
    ELSE LET gap == MantissaBits + 2 + BitLen(b.m) - BitLen(a.m)
             k == IF gap > 0 THEN gap ELSE 0
             res == BDivMod(BShl(a.m, k), b.m)
         IN FRound(a.neg # b.neg, res.q, a.e - b.e - k, res.r # <<>>)

FMinExp(a, b) == IF a.e < b.e THEN a.e ELSE b.e

\* -1, 0 or 1 as |a| < |b|, |a| = |b|, |a| > |b|
FCmpAbs(a, b) ==
    BCmp(BShl(a.m, a.e - FMinExp(a, b)), BShl(b.m, b.e - FMinExp(a, b)))

FAdd(a, b) ==
    LET e == FMinExp(a, b)
        x == BShl(a.m, a.e - e)
        y == BShl(b.m, b.e - e)
    IN IF a.m = <<>> THEN b
       ELSE IF b.m = <<>> THEN a
       ELSE IF a.neg = b.neg THEN FRound(a.neg, BAdd(x, y), e, FALSE)
       ELSE IF BCmp(x, y) >= 0 THEN FRound(a.neg, BSub(x, y), e, FALSE)
       ELSE FRound(b.neg, BSub(y, x), e, FALSE)

FSub(a, b) == FAdd(a, FNeg(b))

\* a < b
FLt(a, b) ==
    IF a.neg /\ ~b.neg THEN TRUE
    ELSE IF ~a.neg /\ b.neg THEN FALSE
    ELSE IF a.neg THEN FCmpAbs(a, b) > 0
    ELSE FCmpAbs(a, b) < 0

\* a <= b
FLe(a, b) == ~FLt(b, a)

\* a is an integer
FIsInt(a) == a.e >= 0

\* Math.floor(a) as an integer of the model
MathFloor(a) ==
    IF a.e >= 0
    THEN IF a.neg THEN 0 - BToInt(BShl(a.m, a.e)) ELSE BToInt(BShl(a.m, a.e))
    ELSE IF a.neg THEN 0 - (BToInt(BShr(a.m, 0 - a.e)) + 1)
    ELSE BToInt(BShr(a.m, 0 - a.e))

\* the double a decimal literal with one fractional digit denotes: n / 10
Tenths(n) == FDiv(FromInt(n), FromInt(10))


----------------------------------------------------------------------------
(* TextMeasurer: ctx.measureText(s).width at font size f, a double in      *)
(* pixels.  Advance widths are per character and additive, in eighths of   *)
(* an em: letters 0.5 em or 0.625 em, the space 0.25 em.                   *)

Advance(c) == IF c = " " THEN 2 ELSE IF c = "b" THEN 5 ELSE 4

RECURSIVE AdvanceSum(_, _)
AdvanceSum(s, k) ==
    IF k > Len(s) THEN 0 ELSE Advance(s[k]) + AdvanceSum(s, k + 1)

\* f * AdvanceSum / 8: a multiple of 1/8 pixel, which a double holds exactly
measureText(f, s) == FRound(FALSE, BFromInt(f * AdvanceSum(s, 1)), -3, FALSE)

----------------------------------------------------------------------------
(* wrapText (script.js 38-55) *)

\* a comparison against twice the box width
FitsOnLineDouble(f, candidate, mw) ==
    FLt(measureText(f, candidate), FMul(FromInt(2), mw))

FitsOnLine(f, candidate, mw) == FLt(measureText(f, candidate), mw)

RECURSIVE WrapLoop(_, _, _, _, _, _)
WrapLoop(f, words, k, currentLine, lines, mw) ==
    IF k > Len(words) THEN Append(lines, currentLine)
    ELSE LET word == words[k]
             candidate == currentLine \o <<" ">> \o word
         IN IF FitsOnLine(f, candidate, mw)
            THEN WrapLoop(f, words, k + 1, candidate, lines, mw)
            ELSE WrapLoop(f, words, k + 1, word, Append(lines, currentLine), mw)

\* a wrapper that forgets to push the line it closes
RECURSIVE WrapLoopDropping(_, _, _, _, _, _)
WrapLoopDropping(f, words, k, currentLine, lines, mw) ==
    IF k > Len(words) THEN Append(lines, currentLine)
    ELSE LET word == words[k]
             candidate == currentLine \o <<" ">> \o word
         IN IF FitsOnLine(f, candidate, mw)
            THEN WrapLoopDropping(f, words, k + 1, candidate, lines, mw)
            ELSE WrapLoopDropping(f, words, k + 1, word, lines, mw)

wrapTextDropping(f, t, mw) ==
    LET words == Split(t, " ")
    IN WrapLoopDropping(f, words, 2, words[1], <<>>, mw)

wrapText(f, t, mw) ==
    LET words == Split(t, " ")
    IN WrapLoop(f, words, 2, words[1], <<>>, mw)

----------------------------------------------------------------------------
(* optimizeLayout (script.js 57-79) *)

LineHeightFactor10 == 12      \* the literal 1.2, in tenths
DefaultMinFontSize == 12
DefaultMaxFontSize == 100

\* lineHeight = fontSize * 1.2
LineHeight(f) == FMul(FromInt(f), Tenths(LineHeightFactor10))

\* totalHeight = lines.length * lineHeight; totalHeight <= maxHeight
FitsHeight(f, lines, mh) ==
    FLe(FMul(FromInt(Len(lines)), LineHeight(f)), mh)

LayoutAt(f, t, mw) ==
    [fontSize |-> f, lines |-> wrapText(f, t, mw), lineHeight |-> LineHeight(f)]

RECURSIVE OptimizeLoop(_, _, _, _, _)
OptimizeLoop(fontSize, t, mw, mh, minF) ==
    IF fontSize >= minF
    THEN IF FitsHeight(fontSize, wrapText(fontSize, t, mw), mh)
         THEN LayoutAt(fontSize, t, mw)
         ELSE OptimizeLoop(fontSize - 1, t, mw, mh, minF)
    ELSE LayoutAt(minF, t, mw)

optimizeLayout(t, mw, mh, minF, maxF) ==
    OptimizeLoop(maxF, t, mw, mh, minF)

NoLayout == [fontSize |-> 0, lines |-> <<>>, lineHeight |-> FZero]

----------------------------------------------------------------------------
(* The job at rest: the state before generateTypingVideo is called *)

NoOptions ==
    [text |-> <<>>, resolution |-> <<>>, videoLength30 |-> 0,
     bufferTime30 |-> 0, backgroundImage |-> "false",
     margins |-> [top |-> 1, bottom |-> 1, left |-> 1, right |-> 1]]

JobAtRest ==
    /\ pc = "idle"
    /\ job = 0
    /\ options = NoOptions
    /\ width = 0
    /\ height = 0
    /\ totalFrames = FZero
    /\ bufferFrames = FZero
    /\ typingFrames = FZero
    /\ i = 0
    /\ frames = <<>>
    /\ dirExists = FALSE
    /\ files = <<>>
    /\ encInput = <<>>
    /\ encEvent = "none"

----------------------------------------------------------------------------
(* Function-level calls of wrapText and optimizeLayout.  The box is given  *)
(* by decimal literals; the font range is [minFontSize, maxFontSize] and   *)
(* the measurer is configured at maxFontSize for the direct wrapText call. *)

InitLayout ==
    /\ text \in TextsUpTo(MaxWords)
    /\ maxWidth10 \in LayoutWidths
    /\ maxHeight10 \in LayoutHeights
    /\ maxWidth = Tenths(maxWidth10)
    /\ maxHeight = Tenths(maxHeight10)
    /\ minFontSize \in 1..MaxFont
    /\ maxFontSize \in minFontSize..MaxFont
    /\ ctxFont = maxFontSize
    /\ wrapped = <<>>
    /\ layout = NoLayout
    /\ lpc = "ready"
    /\ JobAtRest

CallWrapText ==
    /\ lpc = "ready"
    /\ wrapped' = wrapText(ctxFont, text, maxWidth)
    /\ lpc' = "wrapped"
    /\ UNCHANGED <<text, maxWidth, maxHeight, maxWidth10, maxHeight10,
                   minFontSize, maxFontSize, ctxFont, layout>>
    /\ UNCHANGED jvars

CallOptimizeLayout ==
    /\ lpc = "wrapped"
    /\ layout' = optimizeLayout(text, maxWidth, maxHeight,
                                minFontSize, maxFontSize)
    /\ ctxFont' = layout'.fontSize
    /\ lpc' = "laid"
    /\ UNCHANGED <<text, maxWidth, maxHeight, maxWidth10, maxHeight10,
                   minFontSize, maxFontSize, wrapped>>
    /\ UNCHANGED jvars

NextLayout == CallWrapText \/ CallOptimizeLayout

SpecLayout == InitLayout /\ [][NextLayout]_vars

----------------------------------------------------------------------------
(* generateTypingVideo (script.js 81-250) *)

fps == 30

\* a word of n letters c
Letters(c, n) == [k \in 1..n |-> c]

\* "AB CD", "a bb c" and a text of 55 characters in five words
JobTexts == { <<"A", "B", " ", "C", "D">>,
              <<"a", " ", "b", "b", " ", "c">>,
              Join(<<Letters("a", 10), Letters("b", 10), Letters("a", 10),
                     Letters("b", 10), Letters("a", 11)>>) }
Resolutions == { <<"2", "0", "0", "x", "7", "5", "0">>,
                 <<"3", "0", "0", "x", "7", "4", "0">>,
                 <<"0", "x", "7", "5", "0">> }
MarginSets == { [top |-> 1, bottom |-> 1, left |-> 1, right |-> 1],
                [top |-> 1, bottom |-> 1, left |-> 5, right |-> 5] }
BackgroundImages == { "false", "bg.png" }
VideoLengths30 == { 0, 4, 11, MaxVideoLen30 }

OptionSets ==
    [text : JobTexts, resolution : Resolutions,
     videoLength30 : VideoLengths30, bufferTime30 : 0..MaxBufferTime30,
     backgroundImage : BackgroundImages, margins : MarginSets]

\* resolution.split('x').map(Number), destructured into [width, height]
ParseResolution(r) ==
    LET parts == Split(r, "x")
    IN <<Number(parts[1]), Number(parts[2])>>

\* videoLength * fps and bufferTime * fps, the time being the double
\* time30 / 30 seconds
FramesOf(time30) == FMul(FDiv(FromInt(time30), FromInt(30)), FromInt(fps))

\* totalFrames - 2 * bufferFrames
TypingFramesOf(tot, bf) == FSub(tot, FMul(FromInt(2), bf))

\* width * (1 - margins.left - margins.right), the margins in tenths
BoxSide(side, near10, far10) ==
    FMul(FromInt(side), FSub(FSub(FromInt(1), Tenths(near10)), Tenths(far10)))

\* a progress that runs backwards over the typing frames
VisibleCharsReversed(idx, bf, tf, t) ==
    MathFloor(FMul(FromInt(Len(t)),
                   FDiv(FSub(FSub(tf, FromInt(1)), FSub(FromInt(idx), bf)), tf)))

\* Math.floor(text.length * ((i - bufferFrames) / typingFrames))
VisibleChars(idx, bf, tf, t) ==
    MathFloor(FMul(FromInt(Len(t)), FDiv(FSub(FromInt(idx), bf), tf)))

\* the loop of lines 156-164
RECURSIVE WalkLines(_, _, _, _, _)
WalkLines(lines, k, charCount, visibleChars, acc) ==
    IF k > Len(lines) THEN acc
    ELSE IF charCount + Len(lines[k]) <= visibleChars
    THEN WalkLines(lines, k + 1, charCount + Len(lines[k]), visibleChars,
                   Append(acc, lines[k]))
    ELSE Append(acc, SubSeq(lines[k], 1, visibleChars - charCount))

\* i >= bufferFrames && i < totalFrames - bufferFrames
InTypingRegime(idx, tot, bf) ==
    FLe(bf, FromInt(idx)) /\ FLt(FromInt(idx), FSub(tot, bf))

\* a frame loop whose leading hold already shows the text
DisplayLinesNoLeadingHold(idx, tot, bf, tf, lines, t) ==
    IF InTypingRegime(idx, tot, bf)
    THEN WalkLines(lines, 1, 0, VisibleChars(idx, bf, tf, t), <<>>)
    ELSE lines

\* displayLines of frame idx (lines 149-167)
DisplayLines(idx, tot, bf, tf, lines, t) ==
    IF InTypingRegime(idx, tot, bf)
    THEN WalkLines(lines, 1, 0, VisibleChars(idx, bf, tf, t), <<>>)
    ELSE IF FLe(FSub(tot, bf), FromInt(idx)) THEN lines
    ELSE <<>>

\* fs.writeFileSync(frame_<idx>.png): creates or overwrites the file
WriteFile(fl, idx, owner) ==
    [k \in (DOMAIN fl) \cup {idx} |-> IF k = idx THEN owner ELSE fl[k]]

\* the image sequence frame_%05d.png as the encoder reads it: the files of
\* consecutive index from 0 up to the first index that is missing
RECURSIVE ImageSequence(_, _)
ImageSequence(fl, k) ==
    IF k \in DOMAIN fl
    THEN <<[index |-> k, job |-> fl[k]]>> \o ImageSequence(fl, k + 1)
    ELSE <<>>

LayoutAtRest ==
    /\ text = <<>>
    /\ maxWidth = FZero
    /\ maxHeight = FZero
    /\ maxWidth10 = 0
    /\ maxHeight10 = 0
    /\ minFontSize = DefaultMinFontSize
    /\ maxFontSize = DefaultMaxFontSize
    /\ ctxFont = 10
    /\ wrapped = <<>>
    /\ layout = NoLayout
    /\ lpc = "job"

Init == LayoutAtRest /\ JobAtRest

\* lines 82-112: destructure the options, create the canvas, derive the
\* frame counts, create the frame directory when it is missing
StartJob(opts) ==
    /\ pc = "idle"
    /\ job < MaxJobs
    /\ job' = job + 1
    /\ options' = opts
    /\ text' = opts.text
    /\ width' = ParseResolution(opts.resolution)[1]
    /\ height' = ParseResolution(opts.resolution)[2]
    /\ ctxFont' = 10
    /\ totalFrames' = FramesOf(opts.videoLength30)
    /\ bufferFrames' = FramesOf(opts.bufferTime30)
    /\ typingFrames' = TypingFramesOf(totalFrames', bufferFrames')
    /\ dirExists' = TRUE
    /\ layout' = NoLayout
    /\ maxWidth' = FZero
    /\ maxHeight' = FZero
    /\ i' = 0
    /\ frames' = <<>>
    /\ encInput' = <<>>
    /\ encEvent' = "none"
    /\ pc' = IF opts.backgroundImage = "false" THEN "layout" ELSE "loadImage"
    /\ UNCHANGED <<maxWidth10, maxHeight10, minFontSize, maxFontSize, wrapped,
                   lpc, files>>

\* lines 115-122: the background image loads
LoadImageOk ==
    /\ pc = "loadImage"
    /\ pc' = "layout"
    /\ UNCHANGED <<lvars, job, options, width, height, totalFrames,
                   bufferFrames, typingFrames, i, frames, dirExists, files,
                   encInput, encEvent>>

\* line 117: loadImage rejects and the job rejects with it
LoadImageFail ==
    /\ pc = "loadImage"
    /\ pc' = "rejected"
    /\ UNCHANGED <<lvars, job, options, width, height, totalFrames,
                   bufferFrames, typingFrames, i, frames, dirExists, files,
                   encInput, encEvent>>

\* lines 124-130: the bounding box and the layout
ComputeLayout ==
    /\ pc = "layout"
    /\ maxWidth' = BoxSide(width, options.margins.left, options.margins.right)
    /\ maxHeight' = BoxSide(height, options.margins.top, options.margins.bottom)
    /\ layout' = optimizeLayout(text, maxWidth', maxHeight',
                                minFontSize, maxFontSize)
    /\ ctxFont' = layout'.fontSize
    /\ i' = 0
    /\ pc' = "frames"
    /\ UNCHANGED <<text, maxWidth10, maxHeight10, minFontSize, maxFontSize,
                   wrapped, lpc, job, options, width, height, totalFrames,
                   bufferFrames, typingFrames, frames, dirExists, files,
                   encInput, encEvent>>

\* lines 137-200: one pass of the frame loop
RenderFrame ==
    /\ pc = "frames"
    /\ FLt(FromInt(i), totalFrames)
    /\ frames' = Append(frames, DisplayLines(i, totalFrames, bufferFrames,
                                             typingFrames, layout.lines, text))
    /\ files' = WriteFile(files, i, job)
    /\ i' = i + 1
    /\ UNCHANGED <<lvars, pc, job, options, width, height, totalFrames,
                   bufferFrames, typingFrames, dirExists, encInput, encEvent>>

\* lines 202-248: the loop is over, the encoder is started on the directory
StartEncoder ==
    /\ pc = "frames"
    /\ ~FLt(FromInt(i), totalFrames)
    /\ encInput' = ImageSequence(files, 0)
    /\ pc' = "encoding"
    /\ UNCHANGED <<lvars, job, options, width, height, totalFrames,
                   bufferFrames, typingFrames, i, frames, dirExists, files,
                   encEvent>>

\* lines 221-243: 'end': delete every file, remove the directory, resolve
EncoderEnd ==
    /\ pc = "encoding"
    /\ encInput # <<>>
    /\ encEvent' = "end"
    /\ files' = <<>>
    /\ dirExists' = FALSE
    /\ pc' = "resolved"
    /\ UNCHANGED <<lvars, job, options, width, height, totalFrames,
                   bufferFrames, typingFrames, i, frames, encInput>>

\* lines 244-247: 'error': log and reject
EncoderError ==
    /\ pc = "encoding"
    /\ encEvent' = "error"
    /\ pc' = "rejected"
    /\ UNCHANGED <<lvars, job, options, width, height, totalFrames,
                   bufferFrames, typingFrames, i, frames, dirExists, files,
                   encInput>>

\* lines 252-254: the outcome is logged and the process ends; what the job
\* held in memory is gone, the file system stays as the job left it
ProcessExit ==
    /\ pc \in {"resolved", "rejected"}
    /\ pc' = "idle"
    /\ options' = NoOptions
    /\ text' = <<>>
    /\ width' = 0
    /\ height' = 0
    /\ maxWidth' = FZero
    /\ maxHeight' = FZero
    /\ ctxFont' = 10
    /\ layout' = NoLayout
    /\ totalFrames' = FZero
    /\ bufferFrames' = FZero
    /\ typingFrames' = FZero
    /\ i' = 0
    /\ frames' = <<>>
    /\ encInput' = <<>>
    /\ encEvent' = "none"
    /\ UNCHANGED <<maxWidth10, maxHeight10, minFontSize, maxFontSize, wrapped,
                   lpc, job, dirExists, files>>

Next ==
    \/ \E opts \in OptionSets : StartJob(opts)
    \/ ProcessExit
    \/ LoadImageOk
    \/ LoadImageFail
    \/ ComputeLayout
    \/ RenderFrame
    \/ StartEncoder
    \/ EncoderEnd
    \/ EncoderError

Spec == Init /\ [][Next]_vars

----------------------------------------------------------------------------
(* Properties of wrapText and optimizeLayout, checked under SpecLayout *)

\* maxWidth is at least the measured width of every single word of t
WidestWordFits(f, t, mw) ==
    LET words == Split(t, " ")
    IN \A k \in 1..Len(words) : FLe(measureText(f, words[k]), mw)

HasSpace(s) == \E k \in 1..Len(s) : s[k] = " "

SetMax(S) == CHOOSE x \in S : \A y \in S : y <= x

\* C5: for a non-empty text and a maxWidth at least as wide as its widest
\* word, the lines wrapText returns, joined with single spaces, are the text
\* again: this holds of a direct call at the configured font and of the lines
\* optimizeLayout returns at the font size it chose.
C5_WrapRoundTrip ==
    /\ (lpc = "wrapped" /\ WidestWordFits(ctxFont, text, maxWidth))
          => Join(wrapped) = text
    /\ (lpc = "laid" /\ WidestWordFits(layout.fontSize, text, maxWidth))
          => Join(layout.lines) = text

\* a wrap into two or more lines of a text whose widest word fits
C5_Witness ==
    /\ lpc = "wrapped"
    /\ WidestWordFits(ctxFont, text, maxWidth)
    /\ Len(wrapped) >= 2
    /\ \E k \in 1..Len(wrapped) : HasSpace(wrapped[k])

\* the sizes s of the range with lines(s) * s * 1.2 <= maxHeight, the
\* product and the maxHeight literal taken as decimal numbers (in tenths)
FittingSizes ==
    {s \in minFontSize..maxFontSize :
        Len(wrapText(s, text, maxWidth)) * s * 12 <= maxHeight10}

\* C6 as stated: optimizeLayout returns the largest font size s of
\* [minFontSize, maxFontSize] for which the number of lines wrapped at s,
\* times s, times 1.2 is at most maxHeight, with the lines wrapped at that
\* size and the line height the program computes for it; when no size
\* satisfies the constraint it returns minFontSize with the lines wrapped at
\* it.  The size returned is within the range.
C6_LargestFittingSize ==
    lpc = "laid" =>
        /\ layout.fontSize \in minFontSize..maxFontSize
        /\ layout.lineHeight = LineHeight(layout.fontSize)
        /\ layout.lines = wrapText(layout.fontSize, text, maxWidth)
        /\ IF FittingSizes # {}
           THEN layout.fontSize = SetMax(FittingSizes)
           ELSE layout.fontSize = minFontSize

\* C7 as stated: unless the font size is the clamped minimum, every line of
\* the layout is at most maxWidth wide at the chosen font size.
C7_EveryLineFits ==
    (lpc = "laid" /\ layout.fontSize # minFontSize) =>
        \A k \in 1..Len(layout.lines) :
            FLe(measureText(layout.fontSize, layout.lines[k]), maxWidth)

\* C7 amended: whatever font size is chosen, every line of the layout that
\* holds two or more words is narrower than maxWidth at that size; only a
\* line that is one unsplit word can be wider.
C7_MultiWordLinesFit ==
    lpc = "laid" =>
        \A k \in 1..Len(layout.lines) :
            HasSpace(layout.lines[k]) =>
                FLt(measureText(layout.fontSize, layout.lines[k]), maxWidth)

\* a layout with a line of two words next to a single word wider than the box
C7_Witness ==
    /\ lpc = "laid"
    /\ \E k \in 1..Len(layout.lines) :
          /\ HasSpace(layout.lines[k])
          /\ layout.lines[k][1] # " "
          /\ layout.lines[k][Len(layout.lines[k])] # " "
    /\ \E k \in 1..Len(layout.lines) :
          /\ ~HasSpace(layout.lines[k])
          /\ FLt(maxWidth, measureText(layout.fontSize, layout.lines[k]))

----------------------------------------------------------------------------
(* Properties of the job, checked under Spec.  The claims speak of integer *)
(* frame counts: they are stated on the integer values of the doubles.     *)

RECURSIVE CharCountFrom(_, _)
CharCountFrom(ls, k) ==
    IF k > Len(ls) THEN 0 ELSE Len(ls[k]) + CharCountFrom(ls, k + 1)

\* visible character count of a frame: the lengths of its display lines
CharCount(ls) == CharCountFrom(ls, 1)

\* frames[k + 1] holds the display lines of frame index k
FrameAt(k) == frames[k + 1]

Rendered == 0..(Len(frames) - 1)

IntegerFrames == FIsInt(totalFrames) /\ FIsInt(bufferFrames)

TotalFrames == MathFloor(totalFrames)

BufferFrames == MathFloor(bufferFrames)

InTyping(k) == k >= BufferFrames /\ k < TotalFrames - BufferFrames

\* C1: for integer totalFrames > 0 and bufferFrames >= 0 the visible
\* character count never decreases from one frame to the next, inside the
\* typing regime and across the two regime boundaries.
C1_CountNonDecreasing ==
    (IntegerFrames /\ TotalFrames > 0 /\ BufferFrames >= 0) =>
        \A k \in Rendered :
            (k + 1) \in Rendered
                => CharCount(FrameAt(k + 1)) >= CharCount(FrameAt(k))

\* a finished frame loop with a leading hold, a typing regime in which the
\* count grows twice, and a trailing hold that shows more than the last
\* typing frame
C1_Witness ==
    /\ pc = "encoding"
    /\ IntegerFrames
    /\ BufferFrames > 0
    /\ Len(frames) = TotalFrames
    /\ \E k \in Rendered :
          /\ InTyping(k) /\ InTyping(k + 1)
          /\ 0 < CharCount(FrameAt(k))
          /\ CharCount(FrameAt(k)) < CharCount(FrameAt(k + 1))
    /\ CharCount(FrameAt(TotalFrames - BufferFrames - 1))
          < CharCount(FrameAt(TotalFrames - BufferFrames))

\* number of leading whole lines shown for v visible characters: the longest
\* run of leading lines whose cumulative length is at most v
WholeLines(lines, v) ==
    SetMax({n \in 0..Len(lines) : CharCount(SubSeq(lines, 1, n)) <= v})

\* the display lines the typing regime prescribes for v visible characters
TypedLines(lines, v) ==
    LET n == WholeLines(lines, v)
    IN IF n < Len(lines)
       THEN SubSeq(lines, 1, n)
            \o <<SubSeq(lines[n + 1], 1, v - CharCount(SubSeq(lines, 1, n)))>>
       ELSE lines

\* C2 as stated: a frame i of the typing regime, with
\* visibleChars = floor(len(text) * (i - bufferFrames) / typingFrames),
\* shows the longest run of leading whole lines whose cumulative length is at
\* most visibleChars, then, if a line remains, the prefix of the next line
\* of length visibleChars minus the accumulated count, and no later line;
\* so "AB CD" on a single line, with totalFrames = 10 and bufferFrames = 0,
\* shows "AB" at frame 4.
C2_TypingFrameLines ==
    IntegerFrames =>
        /\ \A k \in Rendered :
              InTyping(k) =>
                  LET v == (Len(text) * (k - BufferFrames))
                               \div (TotalFrames - 2 * BufferFrames)
                  IN FrameAt(k) = TypedLines(layout.lines, v)
        /\ (/\ layout.lines = << <<"A", "B", " ", "C", "D">> >>
            /\ TotalFrames = 10 /\ BufferFrames = 0 /\ Len(frames) > 4)
               => FrameAt(4) = << <<"A", "B">> >>

\* C3: when 0 < 2*bufferFrames < totalFrames, the frames before
\* bufferFrames show no line, the frames from totalFrames - bufferFrames on
\* show every line of the layout in full, and frame totalFrames-1 shows the
\* same lines as frame totalFrames-bufferFrames.
C3_HoldRegimes ==
    (IntegerFrames /\ 0 < 2 * BufferFrames /\ 2 * BufferFrames < TotalFrames) =>
        /\ \A k \in Rendered :
              /\ k < BufferFrames => FrameAt(k) = <<>>
              /\ k >= TotalFrames - BufferFrames => FrameAt(k) = layout.lines
        /\ Len(frames) = TotalFrames =>
              FrameAt(TotalFrames - 1) = FrameAt(TotalFrames - BufferFrames)

\* a finished loop with two leading and two trailing hold frames around a
\* typing regime, on a layout of several lines
C3_Witness ==
    /\ pc = "encoding"
    /\ IntegerFrames
    /\ BufferFrames = 2
    /\ 2 * BufferFrames < TotalFrames
    /\ Len(frames) = TotalFrames
    /\ Len(layout.lines) >= 2
    /\ FrameAt(0) = <<>>
    /\ FrameAt(TotalFrames - 1) = layout.lines

\* C4 as stated: when typingFrames <= 0 every frame of the job shows all the
\* lines of the layout in full.
C4_FullyTypedWithoutTypingFrames ==
    FLe(typingFrames, FZero) =>
        \A k \in Rendered : FrameAt(k) = layout.lines

\* C8 as stated: once the encoder has finished, with 'end' or with 'error',
\* and the job has reached its outcome, no frame file is left in the frame
\* directory and the directory is gone.
C8_CleanupOnBothOutcomes ==
    (pc \in {"resolved", "rejected"} /\ encEvent \in {"end", "error"}) =>
        /\ DOMAIN files = {}
        /\ ~dirExists

AllDigits(s) == s # <<>> /\ \A k \in 1..Len(s) : IsDigit(s[k])

\* the settings the spec calls valid
ValidSettings(o) ==
    LET parts == Split(o.resolution, "x")
    IN /\ Len(parts) = 2
       /\ AllDigits(parts[1]) /\ Number(parts[1]) > 0
       /\ AllDigits(parts[2]) /\ Number(parts[2]) > 0
       /\ o.margins.left + o.margins.right < 10
       /\ o.margins.top + o.margins.bottom < 10
       /\ o.videoLength30 > 0

\* C9 as stated: a job whose settings are invalid computes no layout,
\* renders and writes no frame and never starts the encoder.
C9_InvalidSettingsStopTheJob ==
    (pc # "idle" /\ ~ValidSettings(options)) =>
        /\ layout = NoLayout
        /\ frames = <<>>
        /\ pc \notin {"frames", "encoding", "resolved"}
        /\ encEvent = "none"

\* C10 as stated: the encoder is started after the last frame of the job is
\* written, on exactly the frames 0 .. totalFrames-1 of this job, in
\* increasing index order.
C10_EncoderReadsOwnFrames ==
    (pc = "encoding" /\ IntegerFrames) =>
        /\ Len(frames) = TotalFrames
        /\ encInput = [k \in 1..TotalFrames |-> [index |-> k - 1, job |-> job]]

====
